---- MODULE Spec2Model ----
(***************************************************************************)
(* Result generation of a (project, scenario) pair in ram-backend:         *)
(* app/routes/scenarios--gen-results.js.  The POST handler admits a job,   *)
(* generateResults runs the stages export-road-network, generate-vector-   *)
(* tiles and the analysis container, the DELETE handler aborts.  Node runs *)
(* the handlers on one thread: every action below is the code that runs    *)
(* between two awaits (or inside one event callback).                      *)
(***************************************************************************)
EXTENDS Integers, Sequences, FiniteSets, TLC

\* ---------------------------------------------------------------- bounds
NumKeys == 2
MaxPost == 2
MaxDel == 1
MaxTime == 2

Keys == 1..NumKeys
Posts == 1..MaxPost
Dels == 1..MaxDel
\* scenarios_settings values of res_gen_at / rn_updated_at: the literal 0
\* or a date, written as its getTime() value
Times == 0..MaxTime
Services == {"docker", "hyper", "other"}
StderrChunks == {"stderr"}
Undefined == "undefined"
\* exit code of a child process, as the close handlers tell them apart
ExitCodes == {0, 1}

VARIABLES
  service,          \* config.analysisProcess.service
  runningProcesses, \* the Process Registry, one entry per key
  ops,              \* the operations table (Operation Log records)
  files,            \* stored result files of a key exist (s3 + scenarios_files)
  container,        \* run that holds the container name of a key, 0 = none
  crashed,          \* an uncaught exception ended the node process
  pc,               \* position of POST request r and of its generateResults
  pkey,             \* key (projId, scId) of POST request r
  preply,           \* reply of POST request r
  psnap,            \* result of the scenarios_files select of request r
  opId,             \* op.getId() of the run's Operation handle, 0 = none
  hstatus,          \* status held by the run's Operation handle
  needExport,       \* needExport of the run
  error,            \* the error variable of runProcess: the captured stderr
  thrown,           \* what the catch of generateResults caught, else "none"
  exitCode,         \* exit code of the analysis process, -1 = none yet
  pullExit,         \* exit code of the image pull whose container phase is
                    \* going on in the run, -1 = none
  killedIn,         \* stage in which a kill reached the run's handle
  stages,           \* stages (external processes) the run started, in order
  dpc,              \* position of DELETE request d
  dkey,             \* key of DELETE request d
  dop,              \* the Operation handle of DELETE request d
  dreply,           \* reply of DELETE request d
  dact,             \* what killAnalysisProcess did for request d
  settings          \* one reading of the three scenarios_settings values and
                    \* the needExport decided from it

reqVars == <<pc, pkey, preply, psnap>>
runVars ==
  <<opId, hstatus, needExport, error, thrown, exitCode, pullExit, killedIn, stages>>
delVars == <<dpc, dkey, dop, dreply, dact>>
sysVars == <<service, runningProcesses, ops, files, container, crashed>>
vars == <<sysVars, reqVars, runVars, delVars, settings>>

\* ------------------------------------------------- Operation (utils/operation)
NoEntry == [exists |-> FALSE, updateRN |-> 0, genVT |-> 0]
EmptyEntry == [exists |-> TRUE, updateRN |-> 0, genVT |-> 0]

OpsOfKey(k) == {i \in DOMAIN ops : ops[i].key = k}
RunningOps(k) == {i \in OpsOfKey(k) : ops[i].status = "running"}

\* most recent record of the identity, 0 when none exists
Latest(k) ==
  IF OpsOfKey(k) = {} THEN 0
  ELSE CHOOSE i \in OpsOfKey(k) : \A j \in OpsOfKey(k) : j <= i

\* loadByData: the handle after the load; dbok = FALSE is a failure other
\* than "does not exist", which leaves the handle unloaded
LoadByData(k, dbok) ==
  IF ~dbok THEN [id |-> 0, status |-> "unloaded", err |-> "db"]
  ELSE IF Latest(k) = 0 THEN [id |-> 0, status |-> "unloaded", err |-> "not exist"]
  ELSE [id |-> Latest(k), status |-> ops[Latest(k)].status, err |-> "none"]

IsStarted(st) == st = "running"
IsCompleted(st) == st \in {"completed", "error"}

\* start: refused while an unfinished operation of the identity exists
OpStartAllowedUnchecked(k) == TRUE
OpStartAllowed(k) == RunningOps(k) = {}

OpStarted(k) == Append(ops, [key |-> k, status |-> "running", log |-> <<>>])

OpLogged(id, event, data, by) ==
  [ops EXCEPT ![id].log = Append(@, [event |-> event, data |-> data, by |-> by])]

\* finish: sets the terminal status and appends the closing log entry; it
\* does not look at the current status.  A handle that was never started or
\* loaded names no record.
OpFinished(id, status, data, by) ==
  IF id = 0 THEN ops
  ELSE [OpLogged(id, status, data, by) EXCEPT ![id].status = status]

Finishes(id, who) ==
  Cardinality({n \in DOMAIN ops[id].log :
                 ops[id].log[n].event # "start" /\ ops[id].log[n].by \in who})

\* ------------------------------------------------------------------- Init
\* no settings read yet
NoSettings ==
  [genAt |-> 0, activeEditing |-> "false", rnUpdatedAt |-> 0,
   decided |-> FALSE, needExport |-> FALSE]

InitSys ==
  /\ service \in Services
  /\ runningProcesses = [k \in Keys |-> NoEntry]
  /\ ops = <<>>
  /\ files = [k \in Keys |-> TRUE]
  /\ container = [k \in Keys |-> 0]
  /\ crashed = FALSE
  /\ pc = [r \in Posts |-> "idle"]
  /\ pkey = [r \in Posts |-> 0]
  /\ preply = [r \in Posts |-> "none"]
  /\ psnap = [r \in Posts |-> FALSE]
  /\ opId = [r \in Posts |-> 0]
  /\ hstatus = [r \in Posts |-> "not-started"]
  /\ needExport = [r \in Posts |-> FALSE]
  /\ error = [r \in Posts |-> Undefined]
  /\ thrown = [r \in Posts |-> "none"]
  /\ exitCode = [r \in Posts |-> -1]
  /\ pullExit = [r \in Posts |-> -1]
  /\ killedIn = [r \in Posts |-> "none"]
  /\ stages = [r \in Posts |-> <<>>]
  /\ dpc = [d \in Dels |-> "idle"]
  /\ dkey = [d \in Dels |-> 0]
  /\ dop = [d \in Dels |-> [id |-> 0, status |-> "unloaded", err |-> "none"]]
  /\ dreply = [d \in Dels |-> "none"]
  /\ dact = [d \in Dels |-> "none"]

Init == InitSys /\ settings = NoSettings

\* ------------------------------------------------- POST .../generate handler
Reply(r, what) ==
  /\ preply' = [preply EXCEPT ![r] = what]
  /\ pc' = [pc EXCEPT ![r] = "replied"]

\* line 44
AlreadyRunningMissed(op) == FALSE
AlreadyRunning(op) == IsStarted(op.status)

\* lines 33-46: the request arrives, opCheck.loadByData, isStarted
PostLoad(r, k, dbok) ==
  /\ ~crashed
  /\ pc[r] = "idle"
  /\ IF r = 1 THEN TRUE ELSE pc[r - 1] # "idle"
  /\ pkey' = [pkey EXCEPT ![r] = k]
  /\ LET op == LoadByData(k, dbok) IN
       IF op.err = "db" THEN Reply(r, "Error: db")
       ELSE IF AlreadyRunning(op)
         THEN Reply(r, "DataConflictError: Result generation already running")
         ELSE /\ pc' = [pc EXCEPT ![r] = "precond"]
              /\ UNCHANGED preply
  /\ UNCHANGED <<sysVars, psnap, runVars, delVars, settings>>

Preconds == {"ok", "project not active", "no scenario", "no admin areas"}

\* lines 48-70: getProject, the scenario, the admin_areas setting
PostPrecond(r, found) ==
  /\ ~crashed
  /\ pc[r] = "precond"
  /\ CASE found = "ok" -> pc' = [pc EXCEPT ![r] = "select"] /\ UNCHANGED preply
       [] found = "project not active" ->
            Reply(r, "DataConflictError: Project setup not completed")
       [] found = "no scenario" -> Reply(r, "ScenarioNotFoundError")
       [] OTHER -> Reply(r, "DataConflictError: No admin areas selected")
  /\ UNCHANGED <<sysVars, pkey, psnap, runVars, delVars, settings>>

\* lines 74-78: the select of the stored result files
PostSelect(r) ==
  /\ ~crashed
  /\ pc[r] = "select"
  /\ psnap' = [psnap EXCEPT ![r] = files[pkey[r]]]
  /\ pc' = [pc EXCEPT ![r] = "delete"]
  /\ UNCHANGED <<sysVars, pkey, preply, runVars, delVars, settings>>

\* lines 80-99: the files selected are deleted (with the results rows), then
\* generateResults is called (it runs to its first await, op.start) and the
\* request is answered
PostDelete(r) ==
  /\ ~crashed
  /\ pc[r] = "delete"
  /\ files' = [files EXCEPT ![pkey[r]] = IF psnap[r] THEN FALSE ELSE @]
  /\ psnap' = [psnap EXCEPT ![r] = FALSE]
  /\ preply' = [preply EXCEPT ![r] = "Result generation started"]
  /\ pc' = [pc EXCEPT ![r] = "start"]
  /\ UNCHANGED <<service, runningProcesses, ops, container, crashed,
                 pkey, runVars, delVars, settings>>

\* ---------------------------------------------------------- generateResults
StageStarted(r, stage) == stages' = [stages EXCEPT ![r] = Append(@, stage)]

\* lines 207-214: the catch of generateResults; finish is awaited, so its
\* write happens in a later step (GenFinish)
CatchKeepsRunning(r, message) ==
  /\ pc' = [pc EXCEPT ![r] = "done"]
  /\ thrown' = [thrown EXCEPT ![r] = message]
Catch(r, message) ==
  /\ pc' = [pc EXCEPT ![r] = IF IsCompleted(hstatus[r]) THEN "done" ELSE "finishing"]
  /\ thrown' = [thrown EXCEPT ![r] = message]

\* line 211: error.message || error, for the Error built at line 361 from
\* the captured stderr; new Error(undefined) has the empty message
ErrData(captured) == IF captured = Undefined THEN "Error()" ELSE captured

\* lines 165-167: op.start
GenStart(r, dbok) ==
  /\ ~crashed
  /\ pc[r] = "start"
  /\ IF dbok /\ OpStartAllowed(pkey[r])
       THEN /\ ops' = OpStarted(pkey[r])
            /\ opId' = [opId EXCEPT ![r] = Len(ops) + 1]
            /\ hstatus' = [hstatus EXCEPT ![r] = "running"]
            /\ pc' = [pc EXCEPT ![r] = "log"]
            /\ UNCHANGED thrown
       ELSE /\ Catch(r, IF dbok THEN "AlreadyRunningError" ELSE "Error: db")
            /\ UNCHANGED <<ops, opId, hstatus>>
  /\ UNCHANGED <<service, runningProcesses, files, container, crashed,
                 pkey, preply, psnap, needExport, error, exitCode, killedIn,
                 stages, delVars, settings, pullExit>>

\* line 171
EntryCreatedAfresh(k) == [j \in Keys |-> IF j = k THEN EmptyEntry ELSE NoEntry]
EntryCreated(k) ==
  IF runningProcesses[k].exists THEN runningProcesses
  ELSE [runningProcesses EXCEPT ![k] = EmptyEntry]

\* lines 168-171: op.log('start'), getId, the registry entry of the key
GenLog(r) ==
  /\ ~crashed
  /\ pc[r] = "log"
  /\ ops' = OpLogged(opId[r], "start", "Analysis generation started", "gen")
  /\ runningProcesses' = EntryCreated(pkey[r])
  /\ pc' = [pc EXCEPT ![r] = "settings"]
  /\ UNCHANGED <<service, files, container, crashed,
                 pkey, preply, psnap, runVars, delVars, settings>>

\* lines 183-184: 0 stays 0, anything else goes through new Date(v).getTime():
\* a date, counted in seconds since the epoch, becomes milliseconds
GetTime(v) == IF v = 0 THEN v ELSE v * 1000

\* lines 181-192
NeedExportIgnoresEditing(genAt, activeEditing, rnUpdatedAt) ==
  GetTime(rnUpdatedAt) > GetTime(genAt)
NeedExportOrEqual(genAt, activeEditing, rnUpdatedAt) ==
  IF activeEditing = "true" THEN GetTime(rnUpdatedAt) >= GetTime(genAt) ELSE FALSE
NeedExport(genAt, activeEditing, rnUpdatedAt) ==
  IF activeEditing = "true" THEN GetTime(rnUpdatedAt) > GetTime(genAt) ELSE FALSE

\* lines 174-194: the settings are read, needExport is decided and the rest
\* is handed to setImmediate
GenSettings(r, genAt, activeEditing, rnUpdatedAt) ==
  /\ ~crashed
  /\ pc[r] = "settings"
  /\ needExport' = [needExport EXCEPT ![r] = NeedExport(genAt, activeEditing, rnUpdatedAt)]
  /\ pc' = [pc EXCEPT ![r] = "immediate"]
  /\ UNCHANGED <<sysVars, pkey, preply, psnap, opId, hstatus, error, thrown,
                 exitCode, killedIn, stages, delVars, settings, pullExit>>

\* lines 263-273: spawnAnalysisProcess starts with pullImage, which spawns
\* config.analysisProcess.service whatever its name is
PullStarted(r) ==
  /\ StageStarted(r, "pull")
  /\ pc' = [pc EXCEPT ![r] = "pull"]

\* lines 194-203: the setImmediate callback
GenImmediate(r) ==
  /\ ~crashed
  /\ pc[r] = "immediate"
  /\ IF needExport[r]
       THEN pc' = [pc EXCEPT ![r] = "closeDatabase"] /\ UNCHANGED stages
       ELSE PullStarted(r)
  /\ UNCHANGED <<sysVars, pkey, preply, psnap, opId, hstatus, needExport, error,
                 thrown, exitCode, killedIn, delVars, settings, pullExit>>

\* lines 198-199 and 217-237: closeDatabase returned, updateRN registers
\* the service under the key and starts it.  Without an entry for the key
\* line 223 throws inside the promise executor, before start().
UpdateRN(r) ==
  /\ ~crashed
  /\ pc[r] = "closeDatabase"
  /\ IF runningProcesses[pkey[r]].exists
       THEN /\ runningProcesses' = [runningProcesses EXCEPT ![pkey[r]].updateRN = r]
            /\ StageStarted(r, "export-road-network")
            /\ pc' = [pc EXCEPT ![r] = "updateRN"]
            /\ UNCHANGED thrown
       ELSE /\ Catch(r, "TypeError")
            /\ UNCHANGED <<runningProcesses, stages>>
  /\ UNCHANGED <<service, ops, files, container, crashed,
                 pkey, preply, psnap, opId, hstatus, needExport, error, exitCode,
                 killedIn, delVars, settings, pullExit>>

\* lines 229-234: reject(err) goes to the catch of generateResults,
\* resolve() lets generateTiles begin with its select (lines 244-248)
ExportSettledResolves(r, err) ==
  pc' = [pc EXCEPT ![r] = "rnFile"] /\ UNCHANGED thrown
ExportSettled(r, err) ==
  IF err THEN Catch(r, "ServiceError")
         ELSE pc' = [pc EXCEPT ![r] = "rnFile"] /\ UNCHANGED thrown

\* lines 225-235 and 244-248: the service's 'complete' event.  A killed
\* service completes with an error.  Line 226 throws out of the event
\* listener when the key has no entry: an uncaught exception.
UpdateRNComplete(r, err) ==
  /\ ~crashed
  /\ pc[r] = "updateRN"
  /\ killedIn[r] = "export-road-network" => err
  /\ IF ~runningProcesses[pkey[r]].exists
       THEN /\ crashed' = TRUE
            /\ UNCHANGED <<runningProcesses, pc, thrown>>
       ELSE /\ runningProcesses' = [runningProcesses EXCEPT ![pkey[r]].updateRN = 0]
            /\ UNCHANGED crashed
            /\ ExportSettled(r, err)
  /\ UNCHANGED <<service, ops, files, container,
                 pkey, preply, psnap, opId, hstatus, needExport, error, exitCode,
                 killedIn, stages, delVars, settings, pullExit>>

\* lines 250-255: the road-network file was read, createRoadNetworkVT starts
\* the tiles service, the handle is registered
GenerateTiles(r) ==
  /\ ~crashed
  /\ pc[r] = "rnFile"
  /\ StageStarted(r, "generate-vector-tiles")
  /\ IF runningProcesses[pkey[r]].exists
       THEN /\ runningProcesses' = [runningProcesses EXCEPT ![pkey[r]].genVT = r]
            /\ pc' = [pc EXCEPT ![r] = "genVT"]
            /\ UNCHANGED thrown
       ELSE /\ Catch(r, "TypeError")
            /\ UNCHANGED runningProcesses
  /\ UNCHANGED <<service, ops, files, container, crashed,
                 pkey, preply, psnap, opId, hstatus, needExport, error, exitCode,
                 killedIn, delVars, settings, pullExit>>

\* lines 255-258 and 203: service.promise settles.  A killed service
\* rejects.  On a rejection line 258 is not reached.
TilesRejectedGoesOn(r) == PullStarted(r) /\ UNCHANGED <<runningProcesses, thrown>>
TilesRejected(r) == Catch(r, "TilesError") /\ UNCHANGED <<runningProcesses, stages>>

TilesSettled(r, ok) ==
  /\ ~crashed
  /\ pc[r] = "genVT"
  /\ killedIn[r] = "generate-vector-tiles" => ~ok
  /\ IF ~ok THEN TilesRejected(r)
     ELSE IF runningProcesses[pkey[r]].exists
       THEN /\ runningProcesses' = [runningProcesses EXCEPT ![pkey[r]].genVT = 0]
            /\ PullStarted(r)
            /\ UNCHANGED thrown
       ELSE /\ Catch(r, "TypeError")
            /\ UNCHANGED <<runningProcesses, stages>>
  /\ UNCHANGED <<service, ops, files, container, crashed,
                 pkey, preply, psnap, opId, hstatus, needExport, error, exitCode,
                 killedIn, delVars, settings, pullExit>>

\* lines 292-343: runProcess.  The container is run under the name
\* {instanceId}-analysisp{projId}s{scId}; only one container can hold the
\* name, a second docker run of it fails.  For a service that is neither
\* docker nor hyper line 337 returns from the executor: the promise of
\* runProcess never settles.
RunProcess(r) ==
  IF service \in {"docker", "hyper"}
    THEN /\ StageStarted(r, "run-analysis-container")
         /\ container' = [container EXCEPT ![pkey[r]] = IF @ = 0 THEN r ELSE @]
         /\ pc' = [pc EXCEPT ![r] = "analysis"]
    ELSE /\ pc' = [pc EXCEPT ![r] = "hung"]
         /\ UNCHANGED <<stages, container>>

\* lines 281-287 and 369-370: the close handler of the pull logs the code
\* and resolves, whatever the code is; runProcess follows
PullClosedChecksCode(r, code) ==
  IF code # 0 THEN Catch(r, "PullError") /\ UNCHANGED <<stages, container>>
              ELSE RunProcess(r) /\ UNCHANGED thrown
PullClosed(r, code) == RunProcess(r) /\ UNCHANGED thrown

PullClose(r, code) ==
  /\ ~crashed
  /\ pc[r] = "pull"
  /\ pullExit' = [pullExit EXCEPT ![r] = code]
  /\ PullClosed(r, code)
  /\ UNCHANGED <<service, runningProcesses, ops, files, crashed,
                 pkey, preply, psnap, opId, hstatus, needExport, error,
                 exitCode, killedIn, delVars, settings>>

\* lines 350-353: a chunk of the container's stderr
AnalysisStderr(r, chunk) ==
  /\ ~crashed
  /\ pc[r] = "analysis"
  /\ error[r] # chunk
  /\ error' = [error EXCEPT ![r] = chunk]
  /\ UNCHANGED <<sysVars, reqVars, opId, hstatus, needExport, thrown, exitCode,
                 killedIn, stages, delVars, settings, pullExit>>

\* The analysis container (an external worker, given OPERATION_ID, DB_URI
\* and the storage, lines 305-315) stores the results and marks the
\* operation completed.
WorkerStores(r) ==
  /\ pc[r] = "analysis"
  /\ container[pkey[r]] = r
  /\ Finishes(opId[r], {"worker"}) = 0
  /\ ops' = OpFinished(opId[r], "completed", "results", "worker")
  /\ files' = [files EXCEPT ![pkey[r]] = TRUE]
  /\ UNCHANGED <<service, runningProcesses, container, crashed,
                 reqVars, runVars, delVars, settings>>

\* line 358
EntryDeleted(k) == [runningProcesses EXCEPT ![k] = NoEntry]

\* lines 355-365: the container process closes.  A container that was
\* removed, or that never got the name, ends with a nonzero code.
AnalysisClose(r, code) ==
  /\ ~crashed
  /\ pc[r] = "analysis"
  /\ container[pkey[r]] # r => code # 0
  /\ exitCode' = [exitCode EXCEPT ![r] = code]
  /\ pullExit' = [pullExit EXCEPT ![r] = -1]
  /\ runningProcesses' = EntryDeleted(pkey[r])
  /\ container' = [container EXCEPT ![pkey[r]] = IF @ = r THEN 0 ELSE @]
  /\ IF code # 0 THEN Catch(r, ErrData(error[r]))
                 ELSE pc' = [pc EXCEPT ![r] = "done"] /\ UNCHANGED thrown
  /\ UNCHANGED <<service, ops, files, crashed,
                 pkey, preply, psnap, opId, hstatus, needExport, error, killedIn,
                 stages, delVars, settings>>

\* line 211: the write of op.finish('error', ...)
GenFinish(r) ==
  /\ ~crashed
  /\ pc[r] = "finishing"
  /\ ops' = OpFinished(opId[r], "error", thrown[r], "gen")
  /\ hstatus' = [hstatus EXCEPT ![r] = "error"]
  /\ pc' = [pc EXCEPT ![r] = "done"]
  /\ UNCHANGED <<service, runningProcesses, files, container, crashed,
                 pkey, preply, psnap, opId, needExport, error, thrown, exitCode,
                 killedIn, stages, delVars, settings, pullExit>>

\* ----------------------------------------------- DELETE .../generate handler
\* lines 118-123: the request arrives, op.loadByData reads the record
DelLoad(d, k, dbok) ==
  /\ ~crashed
  /\ dpc[d] = "idle"
  /\ IF d = 1 THEN TRUE ELSE dpc[d - 1] # "idle"
  /\ dkey' = [dkey EXCEPT ![d] = k]
  /\ dop' = [dop EXCEPT ![d] = LoadByData(k, dbok)]
  /\ dpc' = [dpc EXCEPT ![d] = "loaded"]
  /\ UNCHANGED <<sysVars, reqVars, runVars, dreply, dact, settings>>

DelReply(d, what) ==
  /\ dreply' = [dreply EXCEPT ![d] = what]
  /\ dpc' = [dpc EXCEPT ![d] = "done"]

\* kill() of a stage handle: it ends the service of run u if that service
\* is still the active stage of u
HandleKilled(u, stage, at) ==
  killedIn' = [killedIn EXCEPT ![u] = IF pc[u] = at THEN stage ELSE @]

\* lines 380-389: the slots are looked at in the order of the stages and the
\* first one that is set returns; reading a slot of a missing entry throws
KillBranchTilesFirst(e) ==
  IF ~e.exists THEN "TypeError"
  ELSE IF e.genVT # 0 THEN "genVT"
  ELSE IF e.updateRN # 0 THEN "updateRN"
  ELSE "container"
KillBranch(e) ==
  IF ~e.exists THEN "TypeError"
  ELSE IF e.updateRN # 0 THEN "updateRN"
  ELSE IF e.genVT # 0 THEN "genVT"
  ELSE "container"

\* lines 373-418: killAnalysisProcess, run synchronously by the promise
\* executor; act is what it did
KillAnalysisProcess(d, k) ==
  LET e == runningProcesses[k]
      branch == KillBranch(e) IN
  IF branch = "TypeError"
    THEN /\ dact' = [dact EXCEPT ![d] = "TypeError"]
         /\ UNCHANGED <<runningProcesses, killedIn, container>>
  ELSE IF branch = "updateRN"
    THEN /\ HandleKilled(e.updateRN, "export-road-network", "updateRN")
         /\ runningProcesses' = [runningProcesses EXCEPT ![k].updateRN = 0]
         /\ dact' = [dact EXCEPT ![d] = "kill updateRN"]
         /\ UNCHANGED container
  ELSE IF branch = "genVT"
    THEN /\ HandleKilled(e.genVT, "generate-vector-tiles", "genVT")
         /\ runningProcesses' = [runningProcesses EXCEPT ![k].genVT = 0]
         /\ dact' = [dact EXCEPT ![d] = "kill genVT"]
         /\ UNCHANGED container
  ELSE IF service \notin {"docker", "hyper"}
    THEN /\ dact' = [dact EXCEPT ![d] = "Error: not a valid option"]
         /\ UNCHANGED <<runningProcesses, killedIn, container>>
  ELSE /\ dact' = [dact EXCEPT ![d] = "rm -f"]
       /\ killedIn' = [u \in Posts |->
            IF container[k] = u THEN "run-analysis-container" ELSE killedIn[u]]
       /\ container' = [container EXCEPT ![k] = 0]
       /\ UNCHANGED runningProcesses

\* lines 124-139: the continuation of the load: the not-exist error, the
\* isStarted check, killAnalysisProcess, and op.finish is called
NotRunningIgnored(d) == FALSE
NotRunning(d) == ~IsStarted(dop[d].status)

DelKill(d) ==
  /\ ~crashed
  /\ dpc[d] = "loaded"
  /\ IF dop[d].err = "not exist" \/ NotRunning(d)
       THEN /\ DelReply(d, "DataConflictError: Result generation not running")
            /\ UNCHANGED <<runningProcesses, killedIn, container, dact>>
       ELSE /\ KillAnalysisProcess(d, dkey[d])
            /\ IF dact'[d] \in {"TypeError", "Error: not a valid option"}
                 THEN DelReply(d, dact'[d])
                 ELSE dpc' = [dpc EXCEPT ![d] = "finish"] /\ UNCHANGED dreply
  /\ UNCHANGED <<service, ops, files, crashed, reqVars,
                 opId, hstatus, needExport, error, thrown, exitCode, stages,
                 dkey, dop, settings, pullExit>>

\* lines 139-141: the write of op.finish('error', 'Operation aborted')
DelFinish(d) ==
  /\ ~crashed
  /\ dpc[d] = "finish"
  /\ ops' = OpFinished(dop[d].id, "error", "Operation aborted", "abort")
  /\ dop' = [dop EXCEPT ![d].status = "error"]
  /\ DelReply(d, "Result generation aborted")
  /\ UNCHANGED <<service, runningProcesses, files, container, crashed,
                 reqVars, runVars, dkey, dact, settings>>

\* ------------------------------------------------------------------- Next
\* every step of POST request r and of the generateResults it started
PostStep(r) ==
  \/ \E k \in Keys, dbok \in BOOLEAN : PostLoad(r, k, dbok)
  \/ \E found \in Preconds : PostPrecond(r, found)
  \/ PostSelect(r)
  \/ PostDelete(r)
  \/ \E dbok \in BOOLEAN : GenStart(r, dbok)
  \/ GenLog(r)
  \/ \E genAt \in Times, rnUpdatedAt \in Times, activeEditing \in {"true", "false"} :
       GenSettings(r, genAt, activeEditing, rnUpdatedAt)
  \/ GenImmediate(r)
  \/ UpdateRN(r)
  \/ \E err \in BOOLEAN : UpdateRNComplete(r, err)
  \/ GenerateTiles(r)
  \/ \E ok \in BOOLEAN : TilesSettled(r, ok)
  \/ \E code \in ExitCodes : PullClose(r, code)
  \/ \E chunk \in StderrChunks : AnalysisStderr(r, chunk)
  \/ WorkerStores(r)
  \/ \E code \in ExitCodes : AnalysisClose(r, code)
  \/ GenFinish(r)

\* every step of DELETE request d
DelStep(d) ==
  \/ \E k \in Keys, dbok \in BOOLEAN : DelLoad(d, k, dbok)
  \/ DelKill(d)
  \/ DelFinish(d)

Next ==
  \/ \E r \in Posts : PostStep(r)
  \/ \E d \in Dels : DelStep(d)

Spec == Init /\ [][Next]_vars

\* ----------------------------------------- the needExport decision by itself
\* lines 174-179: any three values of res_gen_at, rn_active_editing and
\* rn_updated_at may be stored for the scenario
InitNeedExport ==
  /\ InitSys
  /\ settings \in [genAt : Times, activeEditing : {"true", "false"},
                   rnUpdatedAt : Times, decided : {FALSE}, needExport : {FALSE}]

\* lines 181-192 applied to the values read
Decide ==
  /\ ~settings.decided
  /\ settings' = [settings EXCEPT
       !.decided = TRUE,
       !.needExport = NeedExport(settings.genAt, settings.activeEditing,
                                 settings.rnUpdatedAt)]
  /\ UNCHANGED <<sysVars, reqVars, runVars, delVars>>

NextNeedExport == Decide

SpecNeedExport == InitNeedExport /\ [][NextNeedExport]_vars

\* ----------------------------------------------------------------- claims
Range(f) == {f[i] : i \in DOMAIN f}
ConflictRunning == "DataConflictError: Result generation already running"
ConflictNotRunning == "DataConflictError: Result generation not running"
LogOf(r) == ops[opId[r]].log

C2_State ==
  \A r \in Posts :
    preply[r] = ConflictRunning =>
      pc[r] = "replied" /\ opId[r] = 0 /\ stages[r] = <<>>

C2_Step ==
  \A r \in Posts :
    /\ (/\ pc[r] = "idle" /\ pc'[r] # "idle"
        /\ LoadByData(pkey'[r], TRUE).status = "running"
        /\ preply'[r] # "Error: db")
         => preply'[r] = ConflictRunning
    /\ (preply[r] # ConflictRunning /\ preply'[r] = ConflictRunning)
         => UNCHANGED <<files, ops, runningProcesses, container, runVars>>

\* C2: a POST request whose admission check loads a running operation is
\* answered with DataConflictError; the request ends there: it deletes no
\* stored results and starts no job.
C2_RunningIsRefused == [](C2_State) /\ [][C2_Step]_vars

C2_Witness == \E r \in Posts : preply[r] = ConflictRunning /\ files[pkey[r]]

C3_Step ==
  \A d \in Dels :
    (dpc[d] = "loaded" /\ dop[d].status # "running" /\ dpc'[d] # "loaded")
      => /\ dreply'[d] = ConflictNotRunning
         /\ dpc'[d] = "done"
         /\ dact'[d] = "none"
         /\ UNCHANGED <<ops, runningProcesses, killedIn, container>>

\* C3: a DELETE request that loaded no running operation (no record, a
\* record that is completed or error, or a load that failed otherwise)
\* answers DataConflictError in its next step, calls no kill, removes no
\* container and leaves the operations and the registry as they are.
C3_AbortNotRunning == [][C3_Step]_vars

\* the request was refused while a stage handle was registered for the key
C3_Witness ==
  \E d \in Dels :
    /\ dpc[d] = "done" /\ dreply[d] = ConflictNotRunning
    /\ dop[d].status = "error"
    /\ runningProcesses[dkey[d]].genVT # 0

C4_State ==
  \A r \in Posts :
    (pc[r] = "done" /\ exitCode[r] > 0) =>
      /\ opId[r] # 0
      /\ ops[opId[r]].status = "error"
      /\ error[r] # Undefined =>
           \E n \in DOMAIN LogOf(r) :
             LogOf(r)[n] = [event |-> "error", data |-> error[r], by |-> "gen"]

C4_Step ==
  \A r \in Posts :
    (pc[r] = "analysis" /\ pc'[r] # "analysis")
      => ~runningProcesses'[pkey[r]].exists

\* C4: after the analysis process exited with a nonzero code and
\* generateResults ended, the operation is in status error and its log holds
\* the captured stderr as the error; the exit handler leaves no registry
\* entry for the key.  Also after an abort of the operation.
C4_NonzeroExit == [](C4_State) /\ [][C4_Step]_vars

\* the abort finished the operation before generateResults did
C4_Witness ==
  \E r \in Posts :
    /\ pc[r] = "done" /\ exitCode[r] > 0 /\ error[r] # Undefined
    /\ opId[r] # 0
    /\ \E n \in DOMAIN LogOf(r), m \in DOMAIN LogOf(r) :
         n < m /\ LogOf(r)[n].by = "abort" /\ LogOf(r)[m].by = "gen"

\* C5 as claimed: without export only the analysis stage runs, and after
\* exit code 0 the operation is completed.
C5_Original ==
  \A r \in Posts :
    ~needExport[r] =>
      /\ Range(stages[r]) \subseteq {"pull", "run-analysis-container"}
      /\ (pc[r] = "done" /\ exitCode[r] = 0) => ops[opId[r]].status = "completed"

C5_State ==
  \A r \in Posts :
    ~needExport[r] =>
      /\ Range(stages[r]) \subseteq {"pull", "run-analysis-container"}
      /\ (pc[r] = "done" /\ exitCode[r] = 0) =>
           /\ thrown[r] = "none"
           /\ hstatus[r] = "running"
           /\ Finishes(opId[r], {"gen"}) = 0

C5_Step ==
  \A r \in Posts :
    /\ (\E genAt \in Times, rnUpdatedAt \in Times :
          GenSettings(r, genAt, "false", rnUpdatedAt)) => ~needExport'[r]
    /\ (pc[r] = "analysis" /\ pc'[r] = "done") => ops' = ops

\* C5 amended: with rn_active_editing not true needExport is false; a run
\* with needExport false starts only the image pull and the analysis
\* container; on exit code 0 generateResults ends without an error and
\* without a finish: the exit leaves the operations table as it is.
C5_NoExportRun == [](C5_State) /\ [][C5_Step]_vars

C5_Witness ==
  \E r \in Posts :
    /\ ~needExport[r] /\ pc[r] = "done" /\ exitCode[r] = 0
    /\ stages[r] = <<"pull", "run-analysis-container">>

\* C6: a run whose generate-vector-tiles handle was killed by an abort
\* while that stage was active never spawns its analysis container.
C6_KilledTilesNoAnalysis ==
  \A r \in Posts :
    killedIn[r] = "generate-vector-tiles" =>
      "run-analysis-container" \notin Range(stages[r])

C6_Witness ==
  \E r \in Posts :
    /\ killedIn[r] = "generate-vector-tiles" /\ needExport[r]
    /\ service = "docker" /\ pc[r] = "done"

\* C7: finish is called at most once for every operation, by the abort
\* handler or by the catch of generateResults.
C7_FinishOnce ==
  \A i \in DOMAIN ops : Finishes(i, {"gen", "abort"}) <= 1

\* C8: with a service name that is neither docker nor hyper the analysis
\* stage fails with the configuration error before it spawns anything: no
\* image pull is started and the stage does not stay pending.
C8_FailsFast ==
  service \notin {"docker", "hyper"} =>
    \A r \in Posts : "pull" \notin Range(stages[r]) /\ pc[r] # "hung"

\* an error occurred in the accepted job of request r after op.start
ErrorOccurred(r) == opId[r] # 0 /\ (thrown[r] # "none" \/ pc[r] = "hung")

\* C9: when generateResults can take no further step after an error in
\* the started job (no process or service of the run is left to complete),
\* the operation is in status error.
C9_ErrorEndsInError ==
  \A r \in Posts :
    (ErrorOccurred(r) /\ pc[r] \in {"done", "hung"})
      => ops[opId[r]].status = "error"

KeyFrame(k) ==
  \A k2 \in Keys \ {k} :
    /\ runningProcesses'[k2] = runningProcesses[k2]
    /\ \A i \in DOMAIN ops :
         ops[i].key = k2 => i \in DOMAIN ops' /\ ops'[i] = ops[i]
    /\ \A i \in DOMAIN ops' \ DOMAIN ops : ops'[i].key # k2

C10_Step ==
  /\ \A r \in Posts : PostStep(r) => KeyFrame(pkey'[r])
  /\ \A d \in Dels : DelStep(d) => KeyFrame(dkey'[d])

\* C10: every step of a request, an orchestrator, a stage completion, a
\* process exit or an abort of key k leaves the registry entry and the
\* operation records of every other key unchanged.
C10_KeysIndependent == [][C10_Step]_vars

\* two keys with a running operation and a registry entry each
C10_Witness ==
  \E r1 \in Posts, r2 \in Posts :
    /\ pkey[r1] # 0 /\ pkey[r2] # 0 /\ pkey[r1] # pkey[r2]
    /\ pc[r1] = "updateRN" /\ pc[r2] = "analysis"
    /\ runningProcesses[pkey[r1]].exists /\ runningProcesses[pkey[r2]].exists

\* C11: for every key at most one of the slots updateRN and genVT is
\* non-null, and both are null while the analysis stage of a run of the key
\* is active, also over successive runs of the key.
C11_OneSlot ==
  \A k \in Keys :
    /\ ~(runningProcesses[k].updateRN # 0 /\ runningProcesses[k].genVT # 0)
    /\ (\E r \in Posts : pkey[r] = k /\ pc[r] = "analysis")
         => runningProcesses[k].updateRN = 0 /\ runningProcesses[k].genVT = 0

\* C12: in a run that needs the export the stages start in the order export,
\* tiles, analysis (image pull, then container); a stage starts only in the
\* step in which the stage before it completed without an error and was not
\* killed, so no two stages of the run are active at once.
StageOrder ==
  <<"export-road-network", "generate-vector-tiles", "pull", "run-analysis-container">>
IsPrefix(s, t) == Len(s) <= Len(t) /\ \A i \in 1..Len(s) : s[i] = t[i]
StageActive(r) == pc[r] \in {"updateRN", "genVT", "pull", "analysis"}
C12_State ==
  \A r \in Posts : needExport[r] =>
    /\ IsPrefix(stages[r], StageOrder)
    /\ StageActive(r) => Len(stages[r]) >= 1
    /\ Len(stages[r]) >= 2 => killedIn[r] # "export-road-network"
    /\ Len(stages[r]) >= 3 =>
         killedIn[r] \notin {"export-road-network", "generate-vector-tiles"}
C12_Step ==
  \A r \in Posts : needExport[r] /\ stages'[r] # stages[r] =>
    /\ thrown[r] = "none"
    /\ Len(stages'[r]) = Len(stages[r]) + 1
    /\ Len(stages[r]) = 0 => pc[r] = "closeDatabase" /\ UpdateRN(r)
    /\ Len(stages[r]) = 1 => pc[r] = "rnFile" /\ GenerateTiles(r)
    /\ Len(stages[r]) = 2 => pc[r] = "genVT" /\ TilesSettled(r, TRUE)
    /\ Len(stages[r]) = 3 => pc[r] = "pull" /\ \E code \in ExitCodes : PullClose(r, code)
    /\ pc[r] = "updateRN" /\ pc'[r] = "rnFile" => UpdateRNComplete(r, FALSE)
C12_StagesInOrder == [](C12_State) /\ [][C12_Step]_vars
C12_Witness ==
  \E r \in Posts :
    /\ needExport[r] /\ stages[r] = StageOrder /\ pc[r] = "analysis"
    /\ killedIn[r] = "none"

\* C13: needExport is true iff rn_active_editing is true and rn_updated_at is
\* after res_gen_at, where 0 is an unset timestamp; with editing enabled and
\* res_gen_at unset it is true for every value of rn_updated_at (C13_Original)
\* resp. for every set value of rn_updated_at (C13_NeedExport), and with
\* editing enabled and equal timestamps it is false.
After(u, g) == u # 0 /\ (g = 0 \/ u > g)
C13_Iff ==
  settings.needExport =
    (settings.activeEditing = "true" /\ After(settings.rnUpdatedAt, settings.genAt))
C13_Equal ==
  settings.activeEditing = "true" /\ settings.rnUpdatedAt = settings.genAt
    => ~settings.needExport
C13_Original ==
  settings.decided =>
    /\ C13_Iff
    /\ settings.activeEditing = "true" /\ settings.genAt = 0 => settings.needExport
    /\ C13_Equal
C13_NeedExport ==
  settings.decided =>
    /\ C13_Iff
    /\ settings.activeEditing = "true" /\ settings.genAt = 0
         => (settings.needExport <=> settings.rnUpdatedAt # 0)
    /\ C13_Equal
C13_Witness ==
  /\ settings.decided /\ settings.activeEditing = "true"
  /\ settings.genAt = 0 /\ settings.rnUpdatedAt # 0 /\ settings.needExport

\* C14: an abort that calls killAnalysisProcess while the updateRN slot of
\* the key is non-null kills exactly the handle in that slot, sets the slot
\* to null and leaves the genVT slot as it was; no genVT handle is killed and
\* no container is removed.
KillCalled(d) == dact[d] = "none" /\ dact'[d] # "none"
C14_Step ==
  \A d \in Dels :
    KillCalled(d) /\ runningProcesses[dkey[d]].exists
                  /\ runningProcesses[dkey[d]].updateRN # 0 =>
      LET k == dkey[d]
          h == runningProcesses[k].updateRN IN
      /\ dact'[d] = "kill updateRN"
      /\ runningProcesses' = [runningProcesses EXCEPT ![k].updateRN = 0]
      /\ runningProcesses'[k].genVT = runningProcesses[k].genVT
      /\ container' = container
      /\ \A u \in Posts :
           killedIn'[u] # killedIn[u] =>
             u = h /\ pc[u] = "updateRN" /\ killedIn'[u] = "export-road-network"
      /\ pc[h] = "updateRN" => killedIn'[h] = "export-road-network"
C14_AbortInExport == [][C14_Step]_vars
C14_Witness ==
  \E d \in Dels :
    /\ dact[d] = "kill updateRN"
    /\ runningProcesses[dkey[d]].genVT # 0
    /\ \E r \in Posts : pkey[r] = dkey[d] /\ killedIn[r] = "export-road-network"

\* C15: when the generate-vector-tiles stage of a run ends, by its promise
\* resolving or rejecting, the genVT slot of the run's key is null afterwards.
C15_Step ==
  \A r \in Posts :
    pc[r] = "genVT" /\ pc'[r] # "genVT" => runningProcesses'[pkey[r]].genVT = 0
C15_TilesSlotCleared == [][C15_Step]_vars

\* C16: with a supported service, an abort that found the operation running
\* completes the kill step without raising an error, however it interleaves
\* with the orchestrator and the exit handlers of the key: also when both
\* slots are null and when the key has no registry entry.
C16_KillNeverRaises ==
  \A d \in Dels :
    dact[d] # "none" /\ service \in {"docker", "hyper"} =>
      dact[d] \in {"kill updateRN", "kill genVT", "rm -f"}

\* C17: a nonzero exit code of the image pull never aborts the run: when the
\* pull closes, with any exit code, the run goes on into runProcess in the
\* same step (the container is spawned when the service is docker or hyper),
\* nothing is thrown and the operation is not finished because of the pull.
C17_State ==
  \A r \in Posts : pullExit[r] # -1 =>
    /\ pc[r] \in {"analysis", "hung"}
    /\ thrown[r] = "none"
    /\ Finishes(opId[r], {"gen"}) = 0
C17_Step ==
  \A r \in Posts : pc[r] = "pull" /\ pc'[r] # "pull" =>
    /\ pullExit'[r] \in ExitCodes
    /\ thrown'[r] = "none" /\ ops' = ops /\ hstatus' = hstatus
    /\ IF service \in {"docker", "hyper"}
         THEN /\ pc'[r] = "analysis"
              /\ stages'[r] = Append(stages[r], "run-analysis-container")
         ELSE pc'[r] = "hung" /\ stages'[r] = stages[r]
C17_PullNeverAborts == [](C17_State) /\ [][C17_Step]_vars
C17_Witness ==
  \E r \in Posts :
    /\ pullExit[r] = 1 /\ pc[r] = "analysis" /\ container[pkey[r]] = r
    /\ ops[opId[r]].status = "running"

\* C18: once an abort request has returned success for a run (the kill was
\* performed and the run's operation was finished with error), the
\* orchestrator of that run starts no further stage.
AbortedRun(r) ==
  \E d \in Dels :
    /\ dreply[d] = "Result generation aborted"
    /\ opId[r] # 0 /\ dop[d].id = opId[r]
C18_Step == \A r \in Posts : AbortedRun(r) => stages'[r] = stages[r]
C18_NoStageAfterAbort == [][C18_Step]_vars

\* C19: whenever a stage of a run registers, clears or is looked up through a
\* slot, the registry entry of the run's key exists: the exit handler of an
\* earlier run of the key never removes the entry a later run is using.
SlotStep(r) ==
  \/ pc[r] = "closeDatabase" /\ pc'[r] # pc[r]
  \/ pc[r] = "updateRN" /\ (pc'[r] # pc[r] \/ crashed')
  \/ pc[r] = "rnFile" /\ pc'[r] # pc[r]
  \/ pc[r] = "genVT" /\ pc'[r] # pc[r] /\ thrown'[r] # "TilesError"
C19_Step == \A r \in Posts : SlotStep(r) => runningProcesses[pkey[r]].exists
C19_EntryExists == [][C19_Step]_vars

\* C20: the admission path does not run its delete of the stored result
\* files and result records of an identity (lines 83-91) while a
\* generate-analysis operation of that identity is in status running, however
\* two POST requests of the identity interleave.
C20_Step ==
  \A r \in Posts :
    pc[r] = "delete" /\ pc'[r] # "delete" => RunningOps(pkey[r]) = {}
C20_NoDeleteWhileRunning == [][C20_Step]_vars

====
